---- MODULE Spec2Model ----
(***************************************************************************)
(* Scholarship scraper: the job orchestrator Lambda (handler), the Batch   *)
(* tasks it submits (one scraper's scrape() per enabled website), the      *)
(* shared BaseScraper operations (updateJobStatus, processScholarships,    *)
(* checkDuplicate, saveScholarship) and the two DynamoDB tables they       *)
(* write: the jobs table, keyed (jobId, startTime), and the scholarships   *)
(* table, keyed (id, deadline).                                            *)
(*                                                                         *)
(* One step of the model is one awaited I/O operation together with the    *)
(* synchronous code that follows it up to the next await.  Every I/O       *)
(* operation may succeed or throw; the code's try/catch blocks decide      *)
(* what a throw does.                                                      *)
(***************************************************************************)
EXTENDS Integers, Sequences, FiniteSets, TLC

\* ---------------------------------------------------------------- bounds
\* Number of scheduled orchestrator invocations explored by SpecRerun.
MaxRuns == 2
\* Largest clock value (Date.now() abstracted to a small counter).
MaxTime == 1
\* Largest number of candidates the listing pages yield, all websites together.
MaxItems == 2
\* Largest value of the retries argument given to withRetry.
MaxRetries == 4
\* Largest number of waitForNextCall calls made on one RateLimiter.
MaxCalls == 3
\* Number of clock ticks (of ClockStep ms) a RateLimiter is followed for.
MaxTicks == 5
MaxTextLen == 5
MaxCap == 4
MaxAmountLen == 4
MaxSeeds == 2

\* ------------------------------------------------------ the configuration
\* The websites the batch entry point can dispatch on.
Websites == {"careerone", "collegescholarship"}

\* The scrapers that the batch entry point does not dispatch on: their
\* scrape() is called by whoever constructs them.
StandaloneScrapers == {"careeronestop", "discovery"}

\* Every scraper: the key of the state of a running scrape().
Scrapers == Websites \cup StandaloneScrapers

\* this.constructor.name of the scraper.
ScraperClass(w) ==
  CASE w = "careerone" -> "CareerOneScraper"
    [] w = "collegescholarship" -> "CollegeScholarshipScraper"
    [] w = "careeronestop" -> "CareerOneStopScraper"
    [] w = "discovery" -> "DiscoveryCrawlScraper"

\* WebsiteConfig.type.
WebsiteTypes == { "api", "crawl", "discovery", "search" }

\* The attributes of a website item besides enabled; an optional attribute
\* is TRUE when the item has it.
WebsiteItem(w, type, present) ==
  [ name |-> w, type |-> type, scraperClass |-> ScraperClass(w),
    apiEndpoint |-> "apiEndpoint" \in present, apiKey |-> "apiKey" \in present,
    crawlUrl |-> "crawlUrl" \in present, selectors |-> "selectors" \in present,
    discoveryConfig |-> "discoveryConfig" \in present,
    searchConfig |-> "searchConfig" \in present ]

\* The attributes that belong to a type of website.
TypeAttributes(type) ==
  CASE type = "api" -> { "apiEndpoint", "apiKey" }
    [] type = "crawl" -> { "crawlUrl", "selectors" }
    [] type = "discovery" -> { "discoveryConfig" }
    [] type = "search" -> { "searchConfig" }

\* The items a website can have: of any type, with any of the attributes of
\* its type.
WebsiteItems(w) ==
  UNION { { WebsiteItem(w, type, present) : present \in SUBSET TypeAttributes(type) } :
          type \in WebsiteTypes }

\* Both websites are crawl websites whose items have every attribute.
CompleteItems == [w \in Websites |-> WebsiteItem(w, "crawl", TypeAttributes("crawl"))]

\* DynamoDBConfigLoader.validateWebsiteConfig: the errors of one item.
validateWebsiteConfig(website) ==
  LET required == (IF website.name = "" THEN { "Website name is required" } ELSE {})
        \cup (IF website.scraperClass = "" THEN { "Scraper class is required" } ELSE {})
      typed ==
        CASE website.type = "api" ->
               (IF ~website.apiEndpoint
                THEN { "API endpoint is required for API type websites" } ELSE {})
               \cup (IF ~website.apiKey
                     THEN { "API key is required for API type websites" } ELSE {})
          [] website.type = "crawl" ->
               (IF ~website.crawlUrl
                THEN { "Crawl URL is required for crawl type websites" } ELSE {})
               \cup (IF ~website.selectors
                     THEN { "Selectors are required for crawl type websites" } ELSE {})
          [] website.type = "discovery" ->
               IF ~website.discoveryConfig
               THEN { "Discovery config is required for discovery type websites" } ELSE {}
          [] website.type = "search" ->
               IF ~website.searchConfig
               THEN { "Search config is required for search type websites" } ELSE {}
  IN [ isValid |-> required \cup typed = {}, errors |-> required \cup typed ]

\* DynamoDBConfigLoader.loadWebsitesConfig and the handler's scan: the
\* items whose enabled attribute is true, as the scan returns them.
loadWebsitesConfig(enabled, items) == { w \in DOMAIN items : enabled[w] }

\* The text attributes that are normalised are kept as sequences of
\* characters.  The value of such an attribute that is undefined or null:
Undefined == << "undefined" >>

\* The sentinel 'unspecified'.
Unspecified == << "u", "n", "s", "p", "e", "c", "i", "f", "i", "e", "d" >>

\* Candidate records as a listing page yields them: the identifying fields,
\* the id the adapter pre-assigns (createScholarshipId(), a random value),
\* the url, and ethnicity and gender as the adapter found them: missing,
\* empty, blank, padded or plain.
Candidates ==
  { [id |-> "r1", name |-> "A", organization |-> "O", deadline |-> "D1", url |-> "u1",
     ethnicity |-> Undefined, gender |-> << >>],
    [id |-> "r3", name |-> "B", organization |-> "O", deadline |-> "D1", url |-> "u1",
     ethnicity |-> << " ", " " >>, gender |-> << " ", "f", " " >>] }

\* The candidates together with a second sighting of scholarship A: the same
\* (name, organization, deadline), another pre-assigned id and another url.
Sightings ==
  Candidates \cup
  { [id |-> "r2", name |-> "A", organization |-> "O", deadline |-> "D1", url |-> "u2",
     ethnicity |-> << "h" >>, gender |-> Undefined] }

\* All candidate lists of length at most n.
RECURSIVE SeqsUpTo(_, _)
SeqsUpTo(S, n) ==
  IF n = 0 THEN { <<>> }
  ELSE LET shorter == SeqsUpTo(S, n - 1)
       IN shorter \cup { Append(s, x) : s \in { t \in shorter : Len(t) = n - 1 }, x \in S }

Statuses == {"pending", "running", "completed", "failed"}
TerminalStatuses == {"completed", "failed"}

\* The listing pages of the websites: any candidate lists with at most
\* MaxItems candidates in all; the page of a website outside the set
\* enabled is never read and is left empty.
RECURSIVE TotalLen(_, _)
TotalLen(d, S) ==
  IF S = {} THEN 0
  ELSE LET w == CHOOSE x \in S : TRUE IN Len(d[w]) + TotalLen(d, S \ {w})

SourcePagesOf(cands, enabled) ==
  { d \in { [w \in Scrapers |-> IF w \in enabled THEN e[w] ELSE <<>>] :
              e \in [enabled -> SeqsUpTo(cands, MaxItems)] } :
      TotalLen(d, Scrapers) <= MaxItems }

SourcePages(enabled) == SourcePagesOf(Candidates, enabled)

\* The value of a string attribute that is absent (undefined / null in the code).
Absent == "absent"
\* The value of a timestamp attribute that is absent (endTime: undefined).
NoTime == 0 - 1

\* Outcome of one awaited I/O call: it resolves or it throws.
IOOutcomes == {"ok", "throw"}

VARIABLES
  now,               \* the wall clock read by new Date()
  websitesConfig,    \* configuration store: website -> enabled flag
  websiteFields,     \* configuration store: website -> the other attributes of its item
  sourceData,        \* what each website's listing page currently yields
  jobsTable,         \* DynamoDB jobs table: set of items, key (jobId, startTime)
  scholarshipsTable, \* DynamoDB scholarships table: key (id, deadline) -> item
  triggers,          \* scheduled invocations of the handler still to fire
  run,               \* number of the current orchestrator invocation (its uuid)
  hpc,               \* handler position: idle, created, submitting, done
  configLoaded,      \* handler: the configuration was loaded in this run
  enabledWebsites,   \* handler local: enabledWebsites
  jobResults,        \* handler local: website -> result of its submission
  response,          \* handler return value
  submitCalls,       \* Batch: number of SubmitJob commands received per website
  tpc,               \* task position per website
  scholarships,      \* scrape local: scholarships
  idx,               \* processScholarships: index of the current candidate
  inserted,          \* processScholarships local: inserted
  updated,           \* processScholarships local: updated
  errors,            \* scrape / processScholarships local: errors
  result,            \* scrape return value per website
  issued,            \* statuses passed to updateJobStatus, per website, this run
  retryAttempts,     \* withRetry: the retries argument of the outermost call
  operation,         \* withRetry: what the operation does at its n-th invocation
  retries,           \* withRetry: the retries parameter of the current call
  invocations,       \* withRetry: number of times the operation was invoked
  delays,            \* withRetry: the setTimeout delays awaited so far
  rpc,               \* withRetry position: idle, invoke, backoff, returned, thrown
  outcome,           \* withRetry: the value returned or the error thrown
  limNow,            \* RateLimiter: Date.now()
  minInterval,       \* RateLimiter: this.minInterval
  lastCallTime,      \* RateLimiter: this.lastCallTime
  lpc,               \* waitForNextCall position per caller: idle, sleeping
  wakeAt,            \* waitForNextCall: when the caller's timer is due
  calls,             \* RateLimiter: number of waitForNextCall calls made
  grants,            \* RateLimiter: the slots granted, in order (caller, time)
  seedIdx,           \* runDiscoveryCrawl: index of the current seed URL
  discoveryResults,  \* runDiscoveryCrawl: allResults
  pageIdx,           \* analyzeDiscoveryContent: index of the current result
  caught,            \* errors caught and logged while crawling and extracting
  fnInput,           \* a helper function followed alone: its arguments
  fnOutput,          \* a helper function followed alone: what it returned or threw
  fpc                \* a helper function followed alone: idle, call, returned

retryVars == << retryAttempts, operation, retries, invocations, delays, rpc, outcome >>
limiterVars == << limNow, minInterval, lastCallTime, lpc, wakeAt, calls, grants >>

discoveryVars == << seedIdx, discoveryResults, pageIdx, caught >>

callVars == << fnInput, fnOutput, fpc >>

\* The state of the helpers of utils/helper.ts.
helperVars == << retryVars, limiterVars, callVars >>

vars == << now, websitesConfig, websiteFields, sourceData, jobsTable, scholarshipsTable, triggers, run, hpc,
           configLoaded, enabledWebsites, jobResults, response, submitCalls,
           tpc, scholarships, idx, inserted, updated, errors, result, issued, helperVars,
           discoveryVars >>

handlerVars == << hpc, configLoaded, enabledWebsites, jobResults, response, submitCalls >>
taskVars == << tpc, scholarships, idx, inserted, updated, errors, result, issued >>
envVars == << websitesConfig, websiteFields, sourceData, triggers >>

\* --------------------------------------------------------------- job ids
\* const jobId = uuidv4(): a fresh identifier per invocation.
ParentJobId(r) == << r >>
\* const websiteJobId = `${jobId}-${website.name}`
WebsiteJobId(r, w) == << r, w >>

\* ------------------------------------------------------------ DynamoDB put
\* PutCommand on the jobs table: the item replaces the item with the same
\* primary key (jobId, startTime), if any; otherwise it is added.
JobsPut(table, item) ==
  { r \in table : ~(r.jobId = item.jobId /\ r.startTime = item.startTime) } \cup { item }

\* The job record the handler creates.
ParentJobRecord(r, t) ==
  [ jobId |-> ParentJobId(r), startTime |-> t, endTime |-> NoTime, status |-> "pending",
    website |-> "all", recordsFound |-> 0, recordsProcessed |-> 0,
    recordsInserted |-> 0, recordsUpdated |-> 0, errors |-> <<>> ]

NoResponse == [statusCode |-> 0]

\* The value scrape() resolves with; returned is FALSE until it has.
ScrapeResult(ok, found, ins, upd, errs) ==
  [ returned |-> TRUE, success |-> ok, errors |-> errs,
    metadata |-> [ totalFound |-> found, totalProcessed |-> found,
                   totalInserted |-> ins, totalUpdated |-> upd ] ]

NoResult == [ScrapeResult(FALSE, 0, 0, 0, <<>>) EXCEPT !.returned = FALSE]

\* No call of withRetry is being followed.
NoOutcome == << "none" >>

RetryIdle ==
  /\ retryAttempts = 0
  /\ operation = << >>
  /\ retries = 0
  /\ invocations = 0
  /\ delays = << >>
  /\ rpc = "idle"
  /\ outcome = NoOutcome

\* The code that awaits waitForNextCall on one RateLimiter instance.
Callers == { "c1", "c2" }

\* No RateLimiter is being followed.
LimiterIdle ==
  /\ limNow = 0
  /\ minInterval = 0
  /\ lastCallTime = 0
  /\ lpc = [c \in Callers |-> "idle"]
  /\ wakeAt = [c \in Callers |-> 0]
  /\ calls = 0
  /\ grants = << >>

\* No helper function is being followed.
NoValue == << "none" >>

CallIdle ==
  /\ fnInput = NoValue
  /\ fnOutput = NoValue
  /\ fpc = "idle"

HelpersIdle == RetryIdle /\ LimiterIdle /\ CallIdle

\* The state before an invocation: no job yet, nothing running.
ControlIdle ==
  /\ seedIdx = 0
  /\ discoveryResults = << >>
  /\ pageIdx = 0
  /\ caught = << >>
  /\ now = 0
  /\ jobsTable = {}
  /\ run = 0
  /\ hpc = "idle"
  /\ configLoaded = FALSE
  /\ enabledWebsites = {}
  /\ jobResults = << >>
  /\ response = NoResponse
  /\ submitCalls = [w \in Websites |-> 0]
  /\ tpc = [w \in Scrapers |-> "none"]
  /\ scholarships = [w \in Scrapers |-> <<>>]
  /\ idx = [w \in Scrapers |-> 0]
  /\ inserted = [w \in Scrapers |-> 0]
  /\ updated = [w \in Scrapers |-> 0]
  /\ errors = [w \in Scrapers |-> <<>>]
  /\ result = [w \in Scrapers |-> NoResult]
  /\ issued = [w \in Scrapers |-> <<>>]

InitControl == HelpersIdle /\ ControlIdle

\* The state before the first invocation: empty tables, nothing running.
InitProgram ==
  /\ scholarshipsTable = << >>
  /\ InitControl

\* One scheduled invocation, any configuration, any source data.
Init ==
  /\ websitesConfig \in [Websites -> BOOLEAN]
  /\ websiteFields = CompleteItems
  /\ sourceData \in SourcePages({ w \in Websites : websitesConfig[w] })
  /\ triggers = 1
  /\ InitProgram

\* MaxRuns scheduled invocations, one after the other, of a configuration
\* with a single enabled website whose source data never changes.
InitRerun ==
  /\ websitesConfig \in { c \in [Websites -> BOOLEAN] : Cardinality({ w \in Websites : c[w] }) = 1 }
  /\ websiteFields = CompleteItems
  /\ sourceData \in SourcePages({ w \in Websites : websitesConfig[w] })
  /\ triggers = MaxRuns
  /\ InitProgram

\* The clock advances between any two steps.
Tick ==
  /\ now < MaxTime
  /\ now' = now + 1
  /\ UNCHANGED << helperVars, discoveryVars, envVars, jobsTable, scholarshipsTable, run, handlerVars, taskVars >>

\* ------------------------------------------------------------ the handler
\* The catch block of the handler: statusCode 500 and the error message.
HandlerError(msg) == [statusCode |-> 500, message |-> "Error submitting jobs", error |-> msg]

\* A new invocation may begin once the previous one and its tasks are over.
PreviousRunOver == hpc \in {"idle", "done"} /\ \A w \in Websites : tpc[w] \in {"none", "done"}

\* Variant of HandlerCreateJob in which a failed PutCommand of the job
\* record is not propagated to the catch block (the put is not awaited).
HandlerCreateJobPutNotAwaited ==
  /\ PreviousRunOver
  /\ triggers > 0
  /\ triggers' = triggers - 1
  /\ run' = run + 1
  /\ configLoaded' = FALSE
  /\ enabledWebsites' = {}
  /\ jobResults' = << >>
  /\ submitCalls' = [w \in Websites |-> 0]
  /\ tpc' = [w \in Scrapers |-> "none"]
  /\ scholarships' = [w \in Scrapers |-> <<>>]
  /\ idx' = [w \in Scrapers |-> 0]
  /\ inserted' = [w \in Scrapers |-> 0]
  /\ updated' = [w \in Scrapers |-> 0]
  /\ errors' = [w \in Scrapers |-> <<>>]
  /\ result' = [w \in Scrapers |-> NoResult]
  /\ issued' = [w \in Scrapers |-> <<>>]
  /\ \E put \in IOOutcomes :
       jobsTable' = IF put = "ok" THEN JobsPut(jobsTable, ParentJobRecord(run + 1, now))
                    ELSE jobsTable
  /\ hpc' = "created"
  /\ response' = NoResponse
  /\ UNCHANGED << helperVars, discoveryVars, now, websitesConfig, websiteFields, sourceData, scholarshipsTable >>

\* handler, up to the PutCommand of the job record (status 'pending').
HandlerCreateJob ==
  /\ PreviousRunOver
  /\ triggers > 0
  /\ triggers' = triggers - 1
  /\ run' = run + 1
  /\ configLoaded' = FALSE
  /\ enabledWebsites' = {}
  /\ jobResults' = << >>
  /\ submitCalls' = [w \in Websites |-> 0]
  /\ tpc' = [w \in Scrapers |-> "none"]
  /\ scholarships' = [w \in Scrapers |-> <<>>]
  /\ idx' = [w \in Scrapers |-> 0]
  /\ inserted' = [w \in Scrapers |-> 0]
  /\ updated' = [w \in Scrapers |-> 0]
  /\ errors' = [w \in Scrapers |-> <<>>]
  /\ result' = [w \in Scrapers |-> NoResult]
  /\ issued' = [w \in Scrapers |-> <<>>]
  /\ \E put \in IOOutcomes :
       IF put = "ok"
       THEN /\ jobsTable' = JobsPut(jobsTable, ParentJobRecord(run + 1, now))
            /\ hpc' = "created"
            /\ response' = NoResponse
       ELSE /\ jobsTable' = jobsTable
            /\ hpc' = "done"
            /\ response' = HandlerError("PutCommand failed")
  /\ UNCHANGED << helperVars, discoveryVars, now, websitesConfig, websiteFields, sourceData, scholarshipsTable >>

\* handler: load the website configuration and keep the enabled websites.
\* Missing environment variables, an unreachable store and an unreadable
\* body all throw into the handler's catch block.
ConfigErrors ==
  { "CONFIG_BUCKET or WEBSITES_CONFIG_KEY environment variables are not set",
    "Failed to read configuration from S3",
    "configuration store unreachable" }

HandlerLoadConfig ==
  /\ hpc = "created"
  /\ \/ /\ configLoaded' = TRUE
        /\ enabledWebsites' = loadWebsitesConfig(websitesConfig, websiteFields)
        /\ hpc' = "submitting"
        /\ response' = response
     \/ \E msg \in ConfigErrors :
          /\ configLoaded' = FALSE
          /\ enabledWebsites' = enabledWebsites
          /\ hpc' = "done"
          /\ response' = HandlerError(msg)
  /\ UNCHANGED << helperVars, discoveryVars, now, envVars, jobsTable, scholarshipsTable, run, jobResults,
                  submitCalls, taskVars >>

\* handler: one callback of enabledWebsites.map: SubmitJobCommand for one
\* website; a throw is caught inside the callback and becomes a 'failed'
\* result.  A submitted job is queued and runs independently of the handler.
\* Variant of HandlerSubmit without the try/catch inside the callback: a
\* failed SubmitJobCommand rejects Promise.all and reaches the handler's catch.
HandlerSubmitNoCatch(w) ==
  /\ hpc = "submitting"
  /\ w \in enabledWebsites
  /\ w \notin DOMAIN jobResults
  /\ submitCalls' = [submitCalls EXCEPT ![w] = @ + 1]
  /\ \E send \in IOOutcomes :
       IF send = "ok"
       THEN /\ jobResults' = jobResults @@
                (w :> [website |-> w, jobId |-> WebsiteJobId(run, w),
                       status |-> "submitted", error |-> Absent])
            /\ tpc' = [tpc EXCEPT ![w] = "queued"]
            /\ hpc' = hpc
            /\ response' = response
       ELSE /\ jobResults' = jobResults
            /\ tpc' = tpc
            /\ hpc' = "done"
            /\ response' = HandlerError("SubmitJob failed")
  /\ UNCHANGED << helperVars, discoveryVars, now, envVars, jobsTable, scholarshipsTable, run, configLoaded,
                  enabledWebsites, scholarships, idx, inserted, updated,
                  errors, result, issued >>

HandlerSubmit(w) ==
  /\ hpc = "submitting"
  /\ w \in enabledWebsites
  /\ w \notin DOMAIN jobResults
  /\ submitCalls' = [submitCalls EXCEPT ![w] = @ + 1]
  /\ \E send \in IOOutcomes :
       IF send = "ok"
       THEN /\ jobResults' = jobResults @@
                (w :> [website |-> w, jobId |-> WebsiteJobId(run, w),
                       status |-> "submitted", error |-> Absent])
            /\ tpc' = [tpc EXCEPT ![w] = "queued"]
       ELSE /\ jobResults' = jobResults @@
                (w :> [website |-> w, jobId |-> << >>,
                       status |-> "failed", error |-> "SubmitJob failed"])
            /\ tpc' = tpc
  /\ UNCHANGED << helperVars, discoveryVars, now, envVars, jobsTable, scholarshipsTable, run, hpc, configLoaded,
                  enabledWebsites, response, scholarships, idx, inserted, updated,
                  errors, result, issued >>

\* handler: await Promise.all(jobPromises), count and return statusCode 200.
HandlerReturn ==
  /\ hpc = "submitting"
  /\ DOMAIN jobResults = enabledWebsites
  /\ hpc' = "done"
  /\ response' =
       [ statusCode |-> 200,
         message |-> "Jobs submitted successfully",
         totalJobs |-> Cardinality(DOMAIN jobResults),
         successfulJobs |-> Cardinality({ w \in DOMAIN jobResults : jobResults[w].status = "submitted" }),
         failedJobs |-> Cardinality({ w \in DOMAIN jobResults : jobResults[w].status = "failed" }),
         results |-> jobResults ]
  /\ UNCHANGED << helperVars, discoveryVars, now, envVars, jobsTable, scholarshipsTable, run, configLoaded,
                  enabledWebsites, jobResults, submitCalls, taskVars >>

\* ------------------------------------------------------------ TextUtils
\* String.prototype.trim, on sequences of characters.
RECURSIVE trimStart(_)
trimStart(text) == IF text # << >> /\ Head(text) = " " THEN trimStart(Tail(text)) ELSE text

RECURSIVE trimEnd(_)
trimEnd(text) ==
  IF text # << >> /\ text[Len(text)] = " " THEN trimEnd(SubSeq(text, 1, Len(text) - 1)) ELSE text

trim(text) == trimEnd(trimStart(text))

\* ensureNonEmptyString: value && value.trim() !== '' ? value.trim() : defaultValue
ensureNonEmptyString(value, defaultValue) ==
  IF value # Undefined /\ value # << >> /\ trim(value) # << >> THEN trim(value) ELSE defaultValue

\* ------------------------------------------------------- BaseScraper
\* createHash('md5').update(`${name}-${organization}-${deadline}`): the
\* digest is kept symbolic, as an injective tag on the hashed content.
\* A missing attribute reads 'undefined' inside the template literal.
Interpolate(value) == IF value = Absent THEN "undefined" ELSE value

generateScholarshipId(s) ==
  << "md5", Interpolate(s.name) \o "-" \o Interpolate(s.organization) \o "-" \o Interpolate(s.deadline) >>

\* Primary key of the scholarships table: (id, deadline).
ScholarshipKey(s) == << generateScholarshipId(s), s.deadline >>

\* checkDuplicate: GetCommand on (id, deadline); a throw is caught and
\* answered with false.
checkDuplicate(table, s, get) ==
  IF get = "ok" THEN ScholarshipKey(s) \in DOMAIN table ELSE FALSE

\* Variant of ScholarshipItem that keeps the id the adapter pre-assigned
\* (id: scholarship.id || generateScholarshipId(scholarship)).
ScholarshipItemKeepsId(s, cls, jobId, t) ==
  [ id |-> << "pre-assigned", s.id >>, name |-> s.name, organization |-> s.organization,
    deadline |-> s.deadline, url |-> s.url,
    ethnicity |-> ensureNonEmptyString(s.ethnicity, Unspecified),
    gender |-> ensureNonEmptyString(s.gender, Unspecified),
    source |-> cls, updatedAt |-> t, jobId |-> jobId ]

\* Variant of ScholarshipItem without the normalisation
\* (ethnicity: scholarship.ethnicity || '', gender: scholarship.gender || '').
ScholarshipItemOrEmpty(s, cls, jobId, t) ==
  [ id |-> generateScholarshipId(s), name |-> s.name, organization |-> s.organization,
    deadline |-> s.deadline, url |-> s.url,
    ethnicity |-> IF s.ethnicity = Undefined THEN << >> ELSE s.ethnicity,
    gender |-> IF s.gender = Undefined THEN << >> ELSE s.gender,
    source |-> cls, updatedAt |-> t, jobId |-> jobId ]

\* The item saveScholarship puts: fullScholarship as processScholarships
\* builds it (the id is generated, the candidate's own id is not copied),
\* with updatedAt and jobId.
ScholarshipItem(s, cls, jobId, t) ==
  [ id |-> generateScholarshipId(s), name |-> s.name, organization |-> s.organization,
    deadline |-> s.deadline, url |-> s.url,
    ethnicity |-> ensureNonEmptyString(s.ethnicity, Unspecified),
    gender |-> ensureNonEmptyString(s.gender, Unspecified),
    source |-> cls, updatedAt |-> t, jobId |-> jobId ]

\* saveScholarship: an unconditional PutCommand; the item replaces whatever
\* is stored under the same key.  A throw is caught and answered with false.
saveScholarship(table, s, cls, jobId, t, put) ==
  IF put = "ok"
  THEN (ScholarshipKey(s) :> ScholarshipItem(s, cls, jobId, t)) @@ table
  ELSE table

\* Variant of JobStatusItem that stamps endTime on every status.
JobStatusItemAlwaysEnded(jobId, cls, status, meta, t) ==
  [ jobId |-> jobId, startTime |-> t, endTime |-> t,
    status |-> status, website |-> cls,
    recordsFound |-> meta.recordsFound, recordsProcessed |-> meta.recordsProcessed,
    recordsInserted |-> meta.recordsInserted, recordsUpdated |-> meta.recordsUpdated,
    errors |-> meta.errors ]

\* The item updateJobStatus puts.  startTime is read from the clock at
\* every call; endTime is set for the terminal statuses only.
JobStatusItem(jobId, cls, status, meta, t) ==
  [ jobId |-> jobId, startTime |-> t,
    endTime |-> IF status = "completed" \/ status = "failed" THEN t ELSE NoTime,
    status |-> status, website |-> cls,
    recordsFound |-> meta.recordsFound, recordsProcessed |-> meta.recordsProcessed,
    recordsInserted |-> meta.recordsInserted, recordsUpdated |-> meta.recordsUpdated,
    errors |-> meta.errors ]

\* updateJobStatus: the PutCommand; a throw is caught and only logged.
updateJobStatus(table, jobId, cls, status, meta, t, put) ==
  IF put = "ok" THEN JobsPut(table, JobStatusItem(jobId, cls, status, meta, t)) ELSE table

\* Variant of updateJobStatusThrows without the try/catch: a failed
\* PutCommand propagates to the caller.
updateJobStatusRethrows(put) == put = "throw"

\* Whether a failed PutCommand makes updateJobStatus itself throw: never,
\* its try/catch swallows the error.
updateJobStatusThrows(put) == FALSE

ZeroMetadata(errs) ==
  [ recordsFound |-> 0, recordsProcessed |-> 0, recordsInserted |-> 0,
    recordsUpdated |-> 0, errors |-> errs ]

\* --------------------------------------------------------------- scrape()
\* The message of the error a failed listing fetch ends withRetry with.
FetchError == "Request failed"

MAX_SCHOLARSHIP_SEARCH_RESULTS == 50

\* scholarships.filter((s, i, self) => i === self.findIndex(x => x.name === s.name))
UniqueByName(list) ==
  LET keep == { i \in 1..Len(list) : \A j \in 1..(i - 1) : list[j].name # list[i].name }
      F[i \in 0..Len(list)] ==
        IF i = 0 THEN <<>>
        ELSE IF i \in keep THEN Append(F[i - 1], list[i]) ELSE F[i - 1]
  IN F[Len(list)]

Slice(list, n) == SubSeq(list, 1, IF Len(list) < n THEN Len(list) ELSE n)

\* What the callback given to withRetry returns for a fetched page.
PageResult(w, page) ==
  IF w = "careerone"
  THEN Slice(UniqueByName(page), MAX_SCHOLARSHIP_SEARCH_RESULTS)
  ELSE Slice(page, MAX_SCHOLARSHIP_SEARCH_RESULTS)

\* scrape: the first statement of the try block, updateJobStatus('running').
ScrapeRunning(w) ==
  /\ tpc[w] = "queued"
  /\ issued' = [issued EXCEPT ![w] = Append(@, "running")]
  /\ \E put \in IOOutcomes :
       /\ jobsTable' = updateJobStatus(jobsTable, WebsiteJobId(run, w), ScraperClass(w),
                                       "running", ZeroMetadata(<<>>), now, put)
       /\ IF updateJobStatusThrows(put)
          THEN /\ tpc' = [tpc EXCEPT ![w] = "failing"]
               /\ errors' = [errors EXCEPT ![w] = Append(@, "Error updating job status")]
          ELSE /\ tpc' = [tpc EXCEPT ![w] = "fetch"]
               /\ errors' = errors
  /\ UNCHANGED << helperVars, discoveryVars, now, envVars, scholarshipsTable, run, handlerVars, scholarships, idx,
                  inserted, updated, result >>

\* scrape: await withRetry(fetch and parse the listing page).  On success
\* processScholarships starts; when every attempt failed the error reaches
\* the catch block of scrape.
ScrapeFetch(w) ==
  /\ tpc[w] = "fetch"
  /\ \E fetch \in IOOutcomes :
       IF fetch = "ok"
       THEN /\ scholarships' = [scholarships EXCEPT ![w] = PageResult(w, sourceData[w])]
            /\ idx' = [idx EXCEPT ![w] = 1]
            /\ tpc' = [tpc EXCEPT ![w] =
                 IF Len(PageResult(w, sourceData[w])) = 0 THEN "completing" ELSE "check"]
            /\ errors' = errors
       ELSE /\ scholarships' = scholarships
            /\ idx' = idx
            /\ tpc' = [tpc EXCEPT ![w] = "failing"]
            /\ errors' = [errors EXCEPT ![w] = Append(@, FetchError)]
  /\ UNCHANGED << helperVars, discoveryVars, now, envVars, jobsTable, scholarshipsTable, run, handlerVars,
                  inserted, updated, result, issued >>

\* After one candidate: the loop of processScholarships moves on or ends.
AfterCandidate(w) == IF idx[w] < Len(scholarships[w]) THEN "check" ELSE "completing"

\* processScholarships: checkDuplicate for the current candidate; a
\* duplicate is counted as updated, otherwise saveScholarship follows.
ProcessCheck(w) ==
  /\ tpc[w] = "check"
  /\ \E get \in IOOutcomes :
       IF checkDuplicate(scholarshipsTable, scholarships[w][idx[w]], get)
       THEN /\ updated' = [updated EXCEPT ![w] = @ + 1]
            /\ idx' = [idx EXCEPT ![w] = @ + 1]
            /\ tpc' = [tpc EXCEPT ![w] = AfterCandidate(w)]
       ELSE /\ updated' = updated
            /\ idx' = idx
            /\ tpc' = [tpc EXCEPT ![w] = "save"]
  /\ UNCHANGED << helperVars, discoveryVars, now, envVars, jobsTable, scholarshipsTable, run, handlerVars,
                  scholarships, inserted, errors, result, issued >>

\* Variant of ProcessSave that counts a candidate as inserted before it
\* knows whether the write succeeded.
ProcessSaveCountsFirst(w) ==
  /\ tpc[w] = "save"
  /\ \E put \in IOOutcomes :
       /\ scholarshipsTable' = saveScholarship(scholarshipsTable, scholarships[w][idx[w]],
                                  ScraperClass(w), WebsiteJobId(run, w), now, put)
       /\ IF put = "ok"
          THEN /\ inserted' = [inserted EXCEPT ![w] = @ + 1]
               /\ errors' = errors
          ELSE /\ inserted' = [inserted EXCEPT ![w] = @ + 1]
               /\ errors' = [errors EXCEPT ![w] =
                    Append(@, "Failed to save scholarship: " \o scholarships[w][idx[w]].name)]
  /\ idx' = [idx EXCEPT ![w] = @ + 1]
  /\ tpc' = [tpc EXCEPT ![w] = AfterCandidate(w)]
  /\ UNCHANGED << helperVars, discoveryVars, now, envVars, jobsTable, run, handlerVars, scholarships, updated,
                  result, issued >>

\* Variant of ProcessSave in which a failed write ends the loop: the error
\* is recorded and the task goes to the catch block of scrape.
ProcessSaveAborts(w) ==
  /\ tpc[w] = "save"
  /\ \E put \in IOOutcomes :
       /\ scholarshipsTable' = saveScholarship(scholarshipsTable, scholarships[w][idx[w]],
                                  ScraperClass(w), WebsiteJobId(run, w), now, put)
       /\ IF put = "ok"
          THEN /\ inserted' = [inserted EXCEPT ![w] = @ + 1]
               /\ errors' = errors
          ELSE /\ inserted' = inserted
               /\ errors' = [errors EXCEPT ![w] =
                    Append(@, "Failed to save scholarship: " \o scholarships[w][idx[w]].name)]
  /\ idx' = [idx EXCEPT ![w] = @ + 1]
  /\ \/ inserted'[w] # inserted[w] /\ tpc' = [tpc EXCEPT ![w] = AfterCandidate(w)]
     \/ inserted'[w] = inserted[w] /\ tpc' = [tpc EXCEPT ![w] = "failing"]
  /\ UNCHANGED << helperVars, discoveryVars, now, envVars, jobsTable, run, handlerVars, scholarships, updated,
                  result, issued >>

\* processScholarships: saveScholarship for a candidate found not to be a
\* duplicate; counted as inserted when saved, an error string otherwise.
ProcessSave(w) ==
  /\ tpc[w] = "save"
  /\ \E put \in IOOutcomes :
       /\ scholarshipsTable' = saveScholarship(scholarshipsTable, scholarships[w][idx[w]],
                                  ScraperClass(w), WebsiteJobId(run, w), now, put)
       /\ IF put = "ok"
          THEN /\ inserted' = [inserted EXCEPT ![w] = @ + 1]
               /\ errors' = errors
          ELSE /\ inserted' = inserted
               /\ errors' = [errors EXCEPT ![w] =
                    Append(@, "Failed to save scholarship: " \o scholarships[w][idx[w]].name)]
  /\ idx' = [idx EXCEPT ![w] = @ + 1]
  /\ tpc' = [tpc EXCEPT ![w] = AfterCandidate(w)]
  /\ UNCHANGED << helperVars, discoveryVars, now, envVars, jobsTable, run, handlerVars, scholarships, updated,
                  result, issued >>

\* scrape: the end of the try block, updateJobStatus('completed') with the
\* counts of processScholarships, then the successful result.
ScrapeCompleted(w) ==
  /\ tpc[w] = "completing"
  /\ issued' = [issued EXCEPT ![w] = Append(@, "completed")]
  /\ \E put \in IOOutcomes :
       /\ jobsTable' = updateJobStatus(jobsTable, WebsiteJobId(run, w), ScraperClass(w),
            "completed",
            [ recordsFound |-> Len(scholarships[w]), recordsProcessed |-> Len(scholarships[w]),
              recordsInserted |-> inserted[w], recordsUpdated |-> updated[w],
              errors |-> errors[w] ],
            now, put)
       /\ IF updateJobStatusThrows(put)
          THEN /\ tpc' = [tpc EXCEPT ![w] = "failing"]
               /\ errors' = [errors EXCEPT ![w] = Append(@, "Error updating job status")]
               /\ result' = result
          ELSE /\ tpc' = [tpc EXCEPT ![w] = "done"]
               /\ errors' = errors
               /\ result' = [result EXCEPT ![w] =
                    ScrapeResult(TRUE, Len(scholarships[w]), inserted[w], updated[w], errors[w])]
  /\ UNCHANGED << helperVars, discoveryVars, now, envVars, scholarshipsTable, run, handlerVars, scholarships, idx,
                  inserted, updated >>

\* scrape: the catch block, updateJobStatus('failed') with the error list,
\* then the unsuccessful result.
ScrapeFailed(w) ==
  /\ tpc[w] = "failing"
  /\ issued' = [issued EXCEPT ![w] = Append(@, "failed")]
  /\ \E put \in IOOutcomes :
       /\ jobsTable' = updateJobStatus(jobsTable, WebsiteJobId(run, w), ScraperClass(w),
            "failed",
            [ recordsFound |-> Len(scholarships[w]), recordsProcessed |-> Len(scholarships[w]),
              recordsInserted |-> 0, recordsUpdated |-> 0, errors |-> errors[w] ],
            now, put)
       /\ result' = [result EXCEPT ![w] =
            IF updateJobStatusThrows(put) THEN NoResult
            ELSE ScrapeResult(FALSE, 0, 0, 0, errors[w])]
  /\ tpc' = [tpc EXCEPT ![w] = "done"]
  /\ UNCHANGED << helperVars, discoveryVars, now, envVars, scholarshipsTable, run, handlerVars, scholarships, idx,
                  inserted, updated, errors >>

Next ==
  \/ Tick
  \/ HandlerCreateJob
  \/ HandlerLoadConfig
  \/ \E w \in Websites : HandlerSubmit(w)
  \/ HandlerReturn
  \/ \E w \in Websites : ScrapeRunning(w)
  \/ \E w \in Websites : ScrapeFetch(w)
  \/ \E w \in Websites : ProcessCheck(w)
  \/ \E w \in Websites : ProcessSave(w)
  \/ \E w \in Websites : ScrapeCompleted(w)
  \/ \E w \in Websites : ScrapeFailed(w)

Spec == Init /\ [][Next]_vars

SpecRerun == InitRerun /\ [][Next]_vars

\* What an earlier run left in the scholarships table: nothing, or one
\* record saved by the scraper of some website from some sighting.
EarlierJobId(w) == << 0, w >>

PreviousStores ==
  { << >> } \cup
  { saveScholarship(<< >>, s, ScraperClass(w), EarlierJobId(w), 0, "ok") :
      s \in Sightings, w \in Websites }

\* One scheduled invocation with a single enabled website, over a store
\* that may hold a record of an earlier run, and pages that may show the
\* same scholarship twice.
InitBatch ==
  /\ websitesConfig \in { c \in [Websites -> BOOLEAN] : Cardinality({ w \in Websites : c[w] }) = 1 }
  /\ websiteFields = CompleteItems
  /\ sourceData \in SourcePagesOf(Sightings, { w \in Websites : websitesConfig[w] })
  /\ triggers = 1
  /\ scholarshipsTable \in PreviousStores
  /\ InitControl

SpecBatch == InitBatch /\ [][Next]_vars

\* One invocation of the handler over any websites table: either website
\* enabled or not, of any type, with any of the attributes of its type.
InitLoad ==
  /\ websitesConfig \in [Websites -> BOOLEAN]
  /\ websiteFields \in { f \in [Websites -> UNION { WebsiteItems(w) : w \in Websites }] :
                           \A w \in Websites : f[w] \in WebsiteItems(w) }
  /\ sourceData = [w \in Scrapers |-> <<>>]
  /\ triggers = 1
  /\ InitProgram

\* The handler alone: the jobs it submits stay queued.
NextLoad ==
  \/ HandlerCreateJob
  \/ HandlerLoadConfig
  \/ \E w \in Websites : HandlerSubmit(w)
  \/ HandlerReturn

SpecLoad == InitLoad /\ [][NextLoad]_vars

\* The orchestrator and its tasks at rest, while a helper is followed alone.
ProgramIdle ==
  /\ websitesConfig = [w \in Websites |-> FALSE]
  /\ websiteFields = CompleteItems
  /\ sourceData = [w \in Scrapers |-> <<>>]
  /\ triggers = 0
  /\ scholarshipsTable = << >>
  /\ ControlIdle

programVars == << now, envVars, jobsTable, scholarshipsTable, run, handlerVars, taskVars,
                 discoveryVars >>

\* ------------------------------------------------------------ withRetry
\* Messages of the errors an operation may throw: one that isThrottlingError
\* recognises, one that isTimeoutError recognises, one that both recognise,
\* and one that neither does.
ErrorMessages ==
  { "ThrottlingException", "Request timeout", "Too many requests: timed out", "Network Error" }

\* What one invocation of the operation does: it resolves or throws an error.
OperationOutcomes == { "ok" } \cup ErrorMessages

\* isThrottlingError: the message includes 'throttlingexception',
\* 'too many requests' or 'rate exceeded'.
isThrottlingError(error) == error \in { "ThrottlingException", "Too many requests: timed out" }

\* isTimeoutError: the message includes 'timeout' or 'timed out'.
isTimeoutError(error) == error \in { "Request timeout", "Too many requests: timed out" }

\* Math.pow(2, e) * 1000, exact while the result is a whole number (e >= -3).
MathPow2Times1000(e) == IF e >= 0 THEN (2 ^ e) * 1000 ELSE 1000 \div (2 ^ (0 - e))

\* Variant of withRetryDelay with a linear backoff for every error.
withRetryDelayLinear(error, n) == (5 - n) * 1000

\* The delay withRetry waits before the next attempt, in milliseconds.
withRetryDelay(error, n) ==
  IF isThrottlingError(error) THEN MathPow2Times1000(4 - n)
  ELSE IF isTimeoutError(error) THEN MathPow2Times1000(5 - n)
  ELSE 2000

\* The branch of the if / else-if chain of withRetry an error takes.
RetryClass(error) ==
  IF isThrottlingError(error) THEN "throttling"
  ELSE IF isTimeoutError(error) THEN "timeout"
  ELSE "other"

\* The default of the retry count the scrapers pass to withRetry.
MAX_RETRY_ATTEMPTS == 3

\* Variant of ShouldRetry that stops one retry early.
ShouldRetryOneLess(n) == n > 1

\* if (retries > 0): whether a failed invocation is followed by another.
ShouldRetry(n) == n > 0

\* The value the n-th invocation of the operation resolves with, and the
\* error it rejects with.
OperationValue(n) == << "value", n >>
OperationError(n, error) == << "error", n, error >>

\* Variant of RetryReturn for a recursive call whose result is not returned
\* (withRetry(operation, retries - 1) without the return): the outer calls
\* resolve with undefined.
RetryReturnDropped(n) == IF n = 1 THEN OperationValue(n) ELSE << "undefined" >>

\* What the outermost call resolves with when the n-th invocation
\* succeeded: every level returns the promise of the level below.
RetryReturn(n) == OperationValue(n)

\* withRetry(operation, retryAttempts) is called.
InitRetry ==
  /\ ProgramIdle
  /\ LimiterIdle
  /\ CallIdle
  /\ retryAttempts \in 0..MaxRetries
  /\ operation \in [1..(MaxRetries + 1) -> OperationOutcomes]
  /\ retries = retryAttempts
  /\ invocations = 0
  /\ delays = << >>
  /\ rpc = "invoke"
  /\ outcome = NoOutcome

\* withRetry: await operation() and, in the catch block, the choice between
\* another attempt after a delay and rethrowing the error.
RetryInvoke ==
  /\ rpc = "invoke"
  /\ invocations' = invocations + 1
  /\ LET n == invocations + 1
         o == operation[n]
     IN IF o = "ok"
        THEN /\ rpc' = "returned"
             /\ outcome' = RetryReturn(n)
             /\ delays' = delays
        ELSE IF ShouldRetry(retries)
        THEN /\ rpc' = "backoff"
             /\ outcome' = outcome
             /\ delays' = Append(delays, [ error |-> o, retries |-> retries,
                                           delay |-> withRetryDelay(o, retries) ])
        ELSE /\ rpc' = "thrown"
             /\ outcome' = OperationError(n, o)
             /\ delays' = delays
  /\ UNCHANGED << programVars, limiterVars, callVars, retryAttempts, operation, retries >>

\* withRetry: the timer fires and withRetry(operation, retries - 1) runs.
RetryBackoff ==
  /\ rpc = "backoff"
  /\ retries' = retries - 1
  /\ rpc' = "invoke"
  /\ UNCHANGED << programVars, limiterVars, callVars, retryAttempts, operation, invocations, delays, outcome >>

NextRetry == RetryInvoke \/ RetryBackoff

SpecRetry == InitRetry /\ [][NextRetry]_vars

\* ---------------------------------------------------------- RateLimiter
\* Date.now() when the limiter is constructed, in ms: any value that is at
\* least the largest minInterval behaves as the real clock does.
Epoch == 10000
\* The clock is followed in steps of ClockStep ms.
ClockStep == 250
\* The callsPerSecond arguments explored.
Rates == { 1, 2, 4 }

\* new RateLimiter(callsPerSecond): lastCallTime = 0 and
\* minInterval = 1000 / callsPerSecond.
InitLimiter ==
  /\ ProgramIdle
  /\ RetryIdle
  /\ CallIdle
  /\ limNow = Epoch
  /\ \E callsPerSecond \in Rates : minInterval = 1000 \div callsPerSecond
  /\ lastCallTime = 0
  /\ lpc = [c \in Callers |-> "idle"]
  /\ wakeAt = [c \in Callers |-> 0]
  /\ calls = 0
  /\ grants = << >>

\* Time passes.
LimiterTick ==
  /\ limNow < Epoch + MaxTicks * ClockStep
  /\ limNow' = limNow + ClockStep
  /\ UNCHANGED << programVars, retryVars, callVars, minInterval, lastCallTime, lpc, wakeAt, calls, grants >>

\* What lastCallTime is after the synchronous part of waitForNextCall run
\* at time t: unchanged while the caller has to wait, t otherwise.
NextSlot(t, last, interval) == IF t - last < interval THEN last ELSE t

\* waitForNextCall up to its await: read the clock, compare with
\* lastCallTime; either start a timer for the remaining time, or (nothing
\* to wait for) set lastCallTime and resolve.
WaitForNextCall(c) ==
  /\ lpc[c] = "idle"
  /\ calls < MaxCalls
  /\ calls' = calls + 1
  /\ LET timeSinceLastCall == limNow - lastCallTime
     IN IF timeSinceLastCall < minInterval
        THEN /\ lpc' = [lpc EXCEPT ![c] = "sleeping"]
             /\ wakeAt' = [wakeAt EXCEPT ![c] = limNow + (minInterval - timeSinceLastCall)]
             /\ grants' = grants
        ELSE /\ lpc' = lpc
             /\ wakeAt' = wakeAt
             /\ grants' = Append(grants, [caller |-> c, time |-> limNow])
  /\ lastCallTime' = NextSlot(limNow, lastCallTime, minInterval)
  /\ UNCHANGED << programVars, retryVars, callVars, limNow, minInterval >>

\* waitForNextCall after its await: the timer fired, lastCallTime is set
\* to the time it is now and the call resolves.
WaitForNextCallResume(c) ==
  /\ lpc[c] = "sleeping"
  /\ limNow >= wakeAt[c]
  /\ lastCallTime' = limNow
  /\ grants' = Append(grants, [caller |-> c, time |-> limNow])
  /\ lpc' = [lpc EXCEPT ![c] = "idle"]
  /\ wakeAt' = [wakeAt EXCEPT ![c] = 0]
  /\ UNCHANGED << programVars, retryVars, callVars, limNow, minInterval, calls >>

NextLimiter ==
  \/ LimiterTick
  \/ \E c \in Callers : WaitForNextCall(c)
  \/ \E c \in Callers : WaitForNextCallResume(c)

SpecLimiter == InitLimiter /\ [][NextLimiter]_vars

\* ----------------------------------------------------------- truncateText
\* The texts of the model: at most MaxTextLen characters, spaces and letters.
RECURSIVE TextsUpTo(_)
TextsUpTo(n) ==
  IF n = 0 THEN { << >> }
  ELSE TextsUpTo(n - 1) \cup
       { Append(t, c) : t \in { u \in TextsUpTo(n - 1) : Len(u) = n - 1 }, c \in { " ", "a" } }

Texts == TextsUpTo(MaxTextLen)

\* The ellipsis marker.
Ellipsis == << ".", ".", "." >>

\* String.prototype.substring: an index below 0 counts as 0, one above the
\* length as the length, and the two are swapped when start > end.
Clamp(i, n) == IF i < 0 THEN 0 ELSE IF i > n THEN n ELSE i

substring(text, start, end) ==
  LET a == Clamp(start, Len(text))
      b == Clamp(end, Len(text))
  IN IF a <= b THEN SubSeq(text, a + 1, b) ELSE SubSeq(text, b + 1, a)

\* Variant of truncateText that cuts at maxLength and then appends the marker.
truncateTextAtCap(text, maxLength) ==
  IF text = << >> \/ Len(text) <= maxLength THEN text
  ELSE trim(substring(text, 0, maxLength)) \o Ellipsis

\* truncateText: the text itself when it is empty or fits, otherwise its
\* first maxLength - 3 characters, trimmed, and the marker.
truncateText(text, maxLength) ==
  IF text = << >> \/ Len(text) <= maxLength THEN text
  ELSE trim(substring(text, 0, maxLength - 3)) \o Ellipsis

\* truncateText is called with any text and any configured cap
\* (DESCRIPTION_MAX_LENGTH and ELIGIBILITY_MAX_LENGTH come from the environment).
InitTruncate ==
  /\ ProgramIdle
  /\ RetryIdle
  /\ LimiterIdle
  /\ fnInput \in [ text : Texts, maxLength : 0..MaxCap ]
  /\ fnOutput = NoValue
  /\ fpc = "call"

TruncateCall ==
  /\ fpc = "call"
  /\ fnOutput' = truncateText(fnInput.text, fnInput.maxLength)
  /\ fpc' = "returned"
  /\ UNCHANGED << programVars, retryVars, limiterVars, fnInput >>

NextTruncate == TruncateCall

SpecTruncate == InitTruncate /\ [][NextTruncate]_vars

\* ------------------------- CollegeScholarshipScraper: description, eligibility
\* The capped attributes, with the constant that caps each.
CappedFields == { "description", "eligibility" }

\* What the detail page has for a capped attribute: nothing, or a text.
DetailTexts == { Undefined } \cup { t \in Texts : Len(t) \in { 2, MaxTextLen } /\ trim(t) = t }

\* One row of the listing page and the detail page behind it, for one of
\* the capped attributes, under a configured cap that leaves room for the
\* ellipsis marker.
InitEnrich ==
  /\ ProgramIdle
  /\ RetryIdle
  /\ LimiterIdle
  /\ fnInput \in [ field : CappedFields, listing : Texts, detail : DetailTexts,
                     maxLength : 3..MaxCap ]
  /\ fnOutput = NoValue
  /\ fpc = "call"

\* scrape: the scholarship object of a listing row:
\* description: truncateText(removeRedundantPhrases(rawDescription), DESCRIPTION_MAX_LENGTH),
\* and the same for eligibility (the listing text is the cleaned one).
EnrichBuild ==
  /\ fpc = "call"
  /\ fnOutput' = truncateText(fnInput.listing, fnInput.maxLength)
  /\ fpc' = "built"
  /\ UNCHANGED << programVars, retryVars, limiterVars, fnInput >>

\* scrape: Object.assign(scholarship, await fetchScholarshipDetails(link)):
\* details carries the attribute when the detail page has it, and is {}
\* when the page has not or the fetch failed.
EnrichAssign ==
  /\ fpc = "built"
  /\ \E fetch \in IOOutcomes :
       fnOutput' = IF fetch = "ok" /\ fnInput.detail # Undefined /\ fnInput.detail # << >>
                   THEN fnInput.detail ELSE fnOutput
  /\ fpc' = "enriched"
  /\ UNCHANGED << programVars, retryVars, limiterVars, fnInput >>

\* processScholarships and saveScholarship: the attribute is stored as the
\* candidate has it (description: scholarship.description || '').
EnrichStore ==
  /\ fpc = "enriched"
  /\ fnOutput' = fnOutput
  /\ fpc' = "stored"
  /\ UNCHANGED << programVars, retryVars, limiterVars, fnInput >>

NextEnrich == EnrichBuild \/ EnrichAssign \/ EnrichStore

SpecEnrich == InitEnrich /\ [][NextEnrich]_vars

\* ------------------------------------------------------------ cleanAmount
\* The characters of an amount text: a currency symbol, a comma, a quote, a
\* sign, a space, a digit, and one of the words that are not amounts, kept
\* as one element.
AmountChars == { "$", ",", "'", "-", " ", "5", "varies" }

CurrencySymbols == { "$" }
Quotes == { "'" }
NonAmountWords == { "varies" }
Digits == { "5" }

\* \w of the regular expressions.
IsWordChar(c) == c \in Digits \cup NonAmountWords

RECURSIVE AmountsUpTo(_)
AmountsUpTo(n) ==
  IF n = 0 THEN { << >> }
  ELSE AmountsUpTo(n - 1) \cup
       { Append(t, c) : t \in { u \in AmountsUpTo(n - 1) : Len(u) = n - 1 }, c \in AmountChars }

\* text.replace(/[chars]/g, '')
RECURSIVE RemoveChars(_, _)
RemoveChars(text, chars) ==
  IF text = << >> THEN << >>
  ELSE IF Head(text) \in chars THEN RemoveChars(Tail(text), chars)
  ELSE << Head(text) >> \o RemoveChars(Tail(text), chars)

\* text.replace(/\b(amount|varies|...)\b/gi, ''): a word is removed where
\* it is not glued to another word character.
RemoveWords(text) ==
  LET keep == { i \in 1..Len(text) :
                  ~ ( /\ text[i] \in NonAmountWords
                      /\ (i = 1 \/ ~IsWordChar(text[i - 1]))
                      /\ (i = Len(text) \/ ~IsWordChar(text[i + 1])) ) }
      F[i \in 0..Len(text)] ==
        IF i = 0 THEN << >>
        ELSE IF i \in keep THEN Append(F[i - 1], text[i]) ELSE F[i - 1]
  IN F[Len(text)]

\* text.replace(/\s+/g, ' ')
RECURSIVE CollapseSpaces(_)
CollapseSpaces(text) ==
  IF Len(text) < 2 THEN text
  ELSE IF text[1] = " " /\ text[2] = " " THEN CollapseSpaces(Tail(text))
  ELSE << Head(text) >> \o CollapseSpaces(Tail(text))

\* cleanAmount
cleanAmount(text) ==
  IF text = << >> THEN << >>
  ELSE trim(CollapseSpaces(RemoveWords(
         RemoveChars(RemoveChars(RemoveChars(text, CurrencySymbols), { "," }), Quotes))))

\* The value of a digit.
DigitValue(c) == CASE c = "5" -> 5

\* The longest run of digits a text starts with.
RECURSIVE LeadingDigits(_)
LeadingDigits(text) ==
  IF text # << >> /\ Head(text) \in Digits
  THEN << Head(text) >> \o LeadingDigits(Tail(text)) ELSE << >>

RECURSIVE DecimalValue(_)
DecimalValue(digits) ==
  IF digits = << >> THEN 0
  ELSE 10 * DecimalValue(SubSeq(digits, 1, Len(digits) - 1)) + DigitValue(digits[Len(digits)])

\* What parseFloat answers when the text does not start with a number.
NaN == [ isNaN |-> TRUE, value |-> 0 ]

\* parseFloat: leading white space is skipped, then an optional sign and the
\* longest run of digits are read; without a digit the answer is NaN.
parseFloat(text) ==
  LET t == trimStart(text)
      signed == t # << >> /\ Head(t) \in { "-", "+" }
      digits == LeadingDigits(IF signed THEN Tail(t) ELSE t)
  IN IF digits = << >> THEN NaN
     ELSE [ isNaN |-> FALSE,
            value |-> IF signed /\ Head(t) = "-" THEN 0 - DecimalValue(digits)
                      ELSE DecimalValue(digits) ]

\* parseFloat(cleanAmount(value)) || 0
AmountOf(text) ==
  LET n == parseFloat(cleanAmount(text))
  IN IF n.isNaN \/ n.value = 0 THEN 0 ELSE n.value

InitAmount ==
  /\ ProgramIdle
  /\ RetryIdle
  /\ LimiterIdle
  /\ fnInput \in AmountsUpTo(MaxAmountLen)
  /\ fnOutput = NoValue
  /\ fpc = "call"

AmountCall ==
  /\ fpc = "call"
  /\ fnOutput' = AmountOf(fnInput)
  /\ fpc' = "returned"
  /\ UNCHANGED << programVars, retryVars, limiterVars, fnInput >>

NextAmount == AmountCall

SpecAmount == InitAmount /\ [][NextAmount]_vars

\* -------------------------------------------------- generateScholarshipId
\* Names and organizations: plain, holding the separator, missing, and the
\* word a missing one reads as.
NameValues == { "A", "A-B", "B-C", "C", Absent, "undefined" }

\* Candidates of one deadline.
NamedCandidates ==
  { [ id |-> "r", name |-> n, organization |-> o, deadline |-> "D1", url |-> "u",
      ethnicity |-> Undefined, gender |-> Undefined ] : n \in NameValues, o \in NameValues }

\* processScholarships is called with two candidates on an empty store.
InitFingerprint ==
  /\ ProgramIdle
  /\ RetryIdle
  /\ LimiterIdle
  /\ fnInput \in [ first : NamedCandidates, second : NamedCandidates ]
  /\ fnOutput = [ store |-> << >>, isDuplicate |-> FALSE ]
  /\ fpc = "call"

\* processScholarships: the first candidate is not stored and is saved.
FingerprintFirst ==
  /\ fpc = "call"
  /\ ~checkDuplicate(fnOutput.store, fnInput.first, "ok")
  /\ fnOutput' = [ fnOutput EXCEPT !.store =
       saveScholarship(fnOutput.store, fnInput.first, ScraperClass("careerone"),
                       WebsiteJobId(1, "careerone"), 0, "ok") ]
  /\ fpc' = "second"
  /\ UNCHANGED << programVars, retryVars, limiterVars, fnInput >>

\* processScholarships: the duplicate check of the second candidate.
FingerprintSecond ==
  /\ fpc = "second"
  /\ fnOutput' = [ fnOutput EXCEPT !.isDuplicate = checkDuplicate(fnOutput.store, fnInput.second, "ok") ]
  /\ fpc' = "returned"
  /\ UNCHANGED << programVars, retryVars, limiterVars, fnInput >>

NextFingerprint == FingerprintFirst \/ FingerprintSecond

SpecFingerprint == InitFingerprint /\ [][NextFingerprint]_vars

\* ------------------------------------- CareerOneStopScraper, DiscoveryCrawlScraper
\* Nothing runs yet; one of the standalone scrapers has something to find:
\* the listing page of CareerOneStop, or one relevant page behind each seed
\* URL of the discovery configuration.
InitStandalone ==
  /\ HelpersIdle
  /\ websitesConfig = [w \in Websites |-> FALSE]
  /\ websiteFields = CompleteItems
  /\ triggers = 0
  /\ \E s \in StandaloneScrapers : sourceData \in SourcePagesOf(Sightings, {s})
  /\ scholarshipsTable = << >>
  /\ ControlIdle

\* A standalone scraper is constructed and its scrape() is called.
StartScrape(s) ==
  /\ \A w \in Scrapers : tpc[w] = "none"
  /\ \A w \in StandaloneScrapers \ {s} : sourceData[w] = <<>>
  /\ tpc' = [tpc EXCEPT ![s] = "queued"]
  /\ UNCHANGED << helperVars, discoveryVars, now, envVars, jobsTable, scholarshipsTable, run,
                  handlerVars, scholarships, idx, inserted, updated, errors, result, issued >>

\* CareerOneStopScraper.scrape: await withRetry(fetch and parse the listing
\* page) inside the try block.  When every attempt failed, the catch block
\* pushes the message to errors and processScholarships runs on the empty
\* list.
CareerOneStopFetch ==
  /\ tpc["careeronestop"] = "fetch"
  /\ \E fetch \in IOOutcomes :
       IF fetch = "ok"
       THEN /\ scholarships' = [scholarships EXCEPT !["careeronestop"] = sourceData["careeronestop"]]
            /\ tpc' = [tpc EXCEPT !["careeronestop"] =
                 IF Len(sourceData["careeronestop"]) = 0 THEN "completing" ELSE "check"]
            /\ errors' = errors
       ELSE /\ scholarships' = scholarships
            /\ tpc' = [tpc EXCEPT !["careeronestop"] = "completing"]
            /\ errors' = [errors EXCEPT !["careeronestop"] = Append(@, FetchError)]
  /\ idx' = [idx EXCEPT !["careeronestop"] = 1]
  /\ UNCHANGED << helperVars, discoveryVars, now, envVars, jobsTable, scholarshipsTable, run,
                  handlerVars, inserted, updated, result, issued >>

\* CareerOneStopScraper.scrape: errors.length === 0, where errors holds what
\* the catch block pushed (the errors of processScholarships are appended
\* to the result only).
CareerOneStopSuccess == \A i \in 1..Len(errors["careeronestop"]) : errors["careeronestop"][i] # FetchError

\* CareerOneStopScraper.scrape: after processScholarships, the result is
\* built and updateJobStatus('completed') is called with its counts and
\* errors, whatever happened before.
CareerOneStopCompleted ==
  /\ tpc["careeronestop"] = "completing"
  /\ issued' = [issued EXCEPT !["careeronestop"] = Append(@, "completed")]
  /\ \E put \in IOOutcomes :
       jobsTable' = updateJobStatus(jobsTable, WebsiteJobId(run, "careeronestop"),
            ScraperClass("careeronestop"), "completed",
            [ recordsFound |-> Len(scholarships["careeronestop"]),
              recordsProcessed |-> Len(scholarships["careeronestop"]),
              recordsInserted |-> inserted["careeronestop"],
              recordsUpdated |-> updated["careeronestop"],
              errors |-> errors["careeronestop"] ],
            now, put)
  /\ result' = [result EXCEPT !["careeronestop"] =
       ScrapeResult(CareerOneStopSuccess, Len(scholarships["careeronestop"]),
                    inserted["careeronestop"], updated["careeronestop"], errors["careeronestop"])]
  /\ tpc' = [tpc EXCEPT !["careeronestop"] = "done"]
  /\ UNCHANGED << helperVars, discoveryVars, now, envVars, scholarshipsTable, run, handlerVars,
                  scholarships, idx, inserted, updated, errors >>

\* config.seedUrls: one seed URL per page of the source data.
SeedUrls == 1..Len(sourceData["discovery"])

\* What getWebsitesFromDynamoDB and the search for an enabled discovery
\* configuration come to: a configuration, none among the items, or a
\* failed scan (answered with the empty list, hence no configuration).
ScanOutcomes == { "config", "none", "throw" }

\* DiscoveryCrawlScraper.scrape: getWebsitesFromDynamoDB and the search for
\* the discovery configuration; without one, an error is thrown into the
\* catch block of scrape.
DiscoveryLoadConfig ==
  /\ tpc["discovery"] = "fetch"
  /\ \E scan \in ScanOutcomes :
       /\ IF scan = "config"
          THEN /\ tpc' = [tpc EXCEPT !["discovery"] =
                    IF SeedUrls = {} THEN "completing" ELSE "crawl"]
               /\ errors' = errors
          ELSE /\ tpc' = [tpc EXCEPT !["discovery"] = "failing"]
               /\ errors' = [errors EXCEPT !["discovery"] =
                    Append(@, "No discovery configuration found or enabled")]
  /\ seedIdx' = 1
  /\ idx' = [idx EXCEPT !["discovery"] = 1]
  /\ UNCHANGED << helperVars, discoveryResults, pageIdx, caught, now, envVars, jobsTable,
                  scholarshipsTable, run, handlerVars, scholarships, inserted, updated,
                  result, issued >>

\* runDiscoveryCrawl: one round of the loop over the seed URLs: start the
\* crawl and wait for its results; an error is caught, logged and the loop
\* continues with the next seed URL.  After the last seed URL the relevant
\* pages go to analyzeDiscoveryContent (the pages of the model are relevant).
DiscoveryCrawlSeed ==
  /\ tpc["discovery"] = "crawl"
  /\ seedIdx \in SeedUrls
  /\ \E crawl \in IOOutcomes :
       /\ discoveryResults' = IF crawl = "ok"
            THEN Append(discoveryResults, sourceData["discovery"][seedIdx])
            ELSE discoveryResults
       /\ caught' = IF crawl = "ok" THEN caught
                    ELSE Append(caught, "Error in discovery crawl")
       /\ tpc' = [tpc EXCEPT !["discovery"] =
            IF seedIdx + 1 \in SeedUrls THEN "crawl"
            ELSE IF Len(discoveryResults) = 0 /\ crawl # "ok" THEN "completing"
            ELSE "extract"]
  /\ seedIdx' = seedIdx + 1
  /\ pageIdx' = 1
  /\ UNCHANGED << helperVars, now, envVars, jobsTable, scholarshipsTable, run, handlerVars,
                  scholarships, idx, inserted, updated, errors, result, issued >>

\* What extractScholarshipFromDiscovery makes of one page: the scholarship
\* data, null (not a scholarship page), or an error (the model invocation
\* or JSON.parse throws), which is caught, logged and answered with null.
ExtractOutcomes == { "scholarship", "null", "throw" }

\* analyzeDiscoveryBatchWithAI: one round of the loop over the results;
\* after the last one processScholarships starts.
DiscoveryExtract ==
  /\ tpc["discovery"] = "extract"
  /\ pageIdx \in 1..Len(discoveryResults)
  /\ \E ai \in ExtractOutcomes :
       LET found == IF ai = "scholarship"
                    THEN Append(scholarships["discovery"], discoveryResults[pageIdx])
                    ELSE scholarships["discovery"]
       IN /\ scholarships' = [scholarships EXCEPT !["discovery"] = found]
          /\ caught' = IF ai = "throw"
               THEN Append(caught, "Error extracting scholarship from discovery result")
               ELSE caught
          /\ tpc' = [tpc EXCEPT !["discovery"] =
               IF pageIdx < Len(discoveryResults) THEN "extract"
               ELSE IF Len(found) = 0 THEN "completing" ELSE "check"]
  /\ pageIdx' = pageIdx + 1
  /\ UNCHANGED << helperVars, seedIdx, discoveryResults, now, envVars, jobsTable,
                  scholarshipsTable, run, handlerVars, idx, inserted, updated, errors,
                  result, issued >>

NextStandalone ==
  \/ Tick
  \/ \E s \in StandaloneScrapers : StartScrape(s)
  \/ \E s \in StandaloneScrapers : ScrapeRunning(s)
  \/ CareerOneStopFetch
  \/ DiscoveryLoadConfig
  \/ DiscoveryCrawlSeed
  \/ DiscoveryExtract
  \/ \E s \in StandaloneScrapers : ProcessCheck(s)
  \/ \E s \in StandaloneScrapers : ProcessSave(s)
  \/ CareerOneStopCompleted
  \/ ScrapeCompleted("discovery")
  \/ ScrapeFailed("discovery")

SpecStandalone == InitStandalone /\ [][NextStandalone]_vars
\* ------------------------------ runDiscoveryCrawl, waitForDiscoveryCompletion
\* const maxAttempts = 60
maxAttempts == 60

\* What one request to the crawl service comes to: the fetch rejects, the
\* response is not OK, or the job is reported running, completed or failed.
PollResponses == { "reject", "notok", "running", "completed", "failed" }

\* What the POST of startDiscoveryCrawl comes to.
StartResponses == { "reject", "notok", "started" }

\* The error a request ends with, if any.
RequestError(resp) ==
  CASE resp = "reject" -> "fetch failed"
    [] resp = "notok" -> "GumLoop discovery API error"
    [] resp = "failed" -> "GumLoop discovery failed"

\* No request sent yet, no wait finished.
NoWait == [ attempts |-> 0, polls |-> 0, end |-> "none" ]

\* runDiscoveryCrawl is called with a configuration of 1..MaxSeeds seed URLs;
\* fnOutput follows the current waitForDiscoveryCompletion (attempts, the
\* requests it has sent) and keeps how the wait that just finished ended.
InitCrawl ==
  /\ ProgramIdle
  /\ RetryIdle
  /\ LimiterIdle
  /\ fnInput \in [ seedUrls : 1..MaxSeeds ]
  /\ fnOutput = NoWait
  /\ fpc = "call"

\* What a step of the crawl leaves alone.
crawlFrame == << now, envVars, jobsTable, scholarshipsTable, run, handlerVars, taskVars, pageIdx,
                retryVars, limiterVars, fnInput >>

\* Where the loop over the seed URLs goes after the seed URL at seedIdx.
AfterSeed == IF seedIdx < fnInput.seedUrls THEN "start" ELSE "returned"

\* runDiscoveryCrawl: entry, allResults = [].
CrawlEnter ==
  /\ fpc = "call"
  /\ seedIdx' = 1
  /\ fpc' = "start"
  /\ UNCHANGED << crawlFrame, discoveryResults, caught, fnOutput >>

\* runDiscoveryCrawl: startDiscoveryCrawl for the current seed URL; its
\* error is caught by the loop, logged, and the loop continues.
CrawlStart ==
  /\ fpc = "start"
  /\ \E resp \in StartResponses :
       IF resp = "started"
       THEN /\ fpc' = "poll"
            /\ UNCHANGED << seedIdx, caught >>
       ELSE /\ caught' = Append(caught, RequestError(resp))
            /\ seedIdx' = seedIdx + 1
            /\ fpc' = AfterSeed
  /\ fnOutput' = NoWait
  /\ UNCHANGED << crawlFrame, discoveryResults >>

\* Variant of CrawlPoll whose loop is while (attempts <= maxAttempts).
CrawlPollOneMore ==
  /\ fpc = "poll"
  /\ fnOutput.attempts <= maxAttempts
  /\ \E resp \in PollResponses :
       LET polled == [ fnOutput EXCEPT !.polls = @ + 1 ]
       IN IF resp = "running"
          THEN /\ fnOutput' = [ polled EXCEPT !.attempts = @ + 1 ]
               /\ UNCHANGED << fpc, seedIdx, discoveryResults, caught >>
          ELSE /\ fnOutput' = [ polled EXCEPT !.end = resp ]
               /\ discoveryResults' = IF resp = "completed"
                    THEN Append(discoveryResults, seedIdx) ELSE discoveryResults
               /\ caught' = IF resp = "completed" THEN caught
                            ELSE Append(caught, RequestError(resp))
               /\ seedIdx' = seedIdx + 1
               /\ fpc' = AfterSeed
  /\ UNCHANGED crawlFrame

\* waitForDiscoveryCompletion: one round of the while loop: the request,
\* then return the results, throw, or wait 10 seconds and count the attempt.
\* runDiscoveryCrawl pushes the results, or catches the error, and goes on
\* with the next seed URL.
CrawlPoll ==
  /\ fpc = "poll"
  /\ fnOutput.attempts < maxAttempts
  /\ \E resp \in PollResponses :
       LET polled == [ fnOutput EXCEPT !.polls = @ + 1 ]
       IN IF resp = "running"
          THEN /\ fnOutput' = [ polled EXCEPT !.attempts = @ + 1 ]
               /\ UNCHANGED << fpc, seedIdx, discoveryResults, caught >>
          ELSE /\ fnOutput' = [ polled EXCEPT !.end = resp ]
               /\ discoveryResults' = IF resp = "completed"
                    THEN Append(discoveryResults, seedIdx) ELSE discoveryResults
               /\ caught' = IF resp = "completed" THEN caught
                            ELSE Append(caught, RequestError(resp))
               /\ seedIdx' = seedIdx + 1
               /\ fpc' = AfterSeed
  /\ UNCHANGED crawlFrame

\* waitForDiscoveryCompletion: the loop ended, throw 'GumLoop discovery
\* timed out'; runDiscoveryCrawl catches it and goes on.
CrawlTimeout ==
  /\ fpc = "poll"
  /\ ~(fnOutput.attempts < maxAttempts)
  /\ fnOutput' = [ fnOutput EXCEPT !.end = "timeout" ]
  /\ caught' = Append(caught, "GumLoop discovery timed out")
  /\ seedIdx' = seedIdx + 1
  /\ fpc' = AfterSeed
  /\ UNCHANGED << crawlFrame, discoveryResults >>

NextCrawl == CrawlEnter \/ CrawlStart \/ CrawlPoll \/ CrawlTimeout

SpecCrawl == InitCrawl /\ [][NextCrawl]_vars

\* Every awaited request settles and every timer fires: the crawl is not
\* left waiting forever at an await.
SpecCrawlFair == SpecCrawl /\ WF_vars(NextCrawl)

\* ===================================================================
\* Properties
\* ===================================================================
RECURSIVE SumOver(_, _)
SumOver(S, f) ==
  IF S = {} THEN 0
  ELSE LET x == CHOOSE y \in S : TRUE IN f[x] + SumOver(S \ {x}, f)

EnabledSet == { w \in Websites : websitesConfig[w] }

\* The items of the jobs table stored for one job id.
JobItems(jobId) == { r \in jobsTable : r.jobId = jobId }

\* The handler got past the configuration load and has returned.
HandlerFinishedSubmitting == hpc = "done" /\ configLoaded

\* C1: once the configuration is loaded, the handler sends exactly one
\* SubmitJob per enabled website whatever the other submissions do, returns
\* one result per enabled website, 'submitted' or 'failed' with the error
\* message attached, and answers with statusCode 200.
C1_SubmissionFailuresAreIsolated ==
  /\ \A w \in Websites : submitCalls[w] <= 1
  /\ HandlerFinishedSubmitting =>
       /\ response.statusCode = 200
       /\ \A w \in Websites : submitCalls[w] = IF w \in EnabledSet THEN 1 ELSE 0
       /\ DOMAIN response.results = EnabledSet
       /\ \A w \in EnabledSet :
            /\ response.results[w].website = w
            /\ response.results[w].status \in {"submitted", "failed"}
            /\ response.results[w].status = "failed" => response.results[w].error # Absent
            /\ response.results[w].status = "submitted" => tpc[w] # "none"
       /\ response.totalJobs = Cardinality(EnabledSet)
       /\ response.successfulJobs + response.failedJobs = response.totalJobs

\* A run in which one submission failed and another one went through.
C1_Witness ==
  /\ HandlerFinishedSubmitting
  /\ response.statusCode = 200
  /\ \E w, v \in EnabledSet :
       response.results[w].status = "failed" /\ response.results[v].status = "submitted"

\* C2: when the handler has run to completion (statusCode 200), the parent
\* job record of the run has status 'completed' (with zero counts and no
\* errors when no website is enabled).
C2_ParentJobCompleted ==
  (hpc = "done" /\ response.statusCode = 200) =>
     /\ JobItems(ParentJobId(run)) # {}
     /\ \A r \in JobItems(ParentJobId(run)) :
          /\ r.status = "completed"
          /\ EnabledSet = {} =>
               r.recordsFound = 0 /\ r.recordsInserted = 0 /\ r.errors = <<>>

\* C3: when loading the configuration fails, the parent job record of the
\* run has status 'failed' and its error list holds the configuration error.
C3_ConfigFailureMarksJobFailed ==
  (hpc = "done" /\ response.statusCode = 500 /\ response.error \in ConfigErrors) =>
     /\ JobItems(ParentJobId(run)) # {}
     /\ \A r \in JobItems(ParentJobId(run)) :
          /\ r.status = "failed"
          /\ \E i \in 1..Len(r.errors) : r.errors[i] = response.error

\* C4: a SubmitJob is sent only after the parent job record was written
\* with status 'pending' and the configuration was loaded; a run in which
\* either step failed sends none.
C4_NoSubmissionBeforeJobRecordAndConfig ==
  /\ \A w \in Websites :
       submitCalls[w] > 0 =>
         /\ configLoaded
         /\ \E r \in JobItems(ParentJobId(run)) : r.status = "pending"
  /\ (hpc = "done" /\ response.statusCode = 500) =>
       /\ \A w \in Websites : submitCalls[w] = 0 /\ tpc[w] = "none"

\* A run with an enabled website that ended in the handler's catch block,
\* and (in other states) a run that did submit.
C4_Witness ==
  /\ hpc = "done"
  /\ response.statusCode = 500
  /\ response.error \in ConfigErrors
  /\ EnabledSet # {}

\* The sub-tasks of the run that were submitted, and whether all are over.
SubmittedTasks == { w \in Websites : tpc[w] # "none" }
AllSubTasksFinished ==
  /\ hpc = "done"
  /\ response.statusCode = 200
  /\ \A w \in SubmittedTasks : tpc[w] = "done" /\ result[w].returned

\* C5: once all sub-tasks of a run have finished, the counts of the parent
\* job record are the sums of the sub-tasks' counts and its error list
\* holds every sub-task error.
C5_ParentAggregatesSubTasks ==
  AllSubTasksFinished =>
    \A r \in JobItems(ParentJobId(run)) :
      /\ r.recordsFound =
           SumOver(SubmittedTasks, [w \in Websites |-> result[w].metadata.totalFound])
      /\ r.recordsProcessed =
           SumOver(SubmittedTasks, [w \in Websites |-> result[w].metadata.totalProcessed])
      /\ r.recordsInserted =
           SumOver(SubmittedTasks, [w \in Websites |-> result[w].metadata.totalInserted])
      /\ r.recordsUpdated =
           SumOver(SubmittedTasks, [w \in Websites |-> result[w].metadata.totalUpdated])
      /\ \A w \in SubmittedTasks : \A i \in 1..Len(result[w].errors) :
           \E j \in 1..Len(r.errors) : r.errors[j] = result[w].errors[i]

\* C6: the statuses one execution of scrape() passes to updateJobStatus are
\* 'running' first and then exactly one terminal status; nothing follows a
\* terminal status.
C6_StatusWritesRunningThenOneTerminal ==
  \A w \in Websites :
    /\ issued[w] \in { <<>>, <<"running">>, <<"running", "completed">>, <<"running", "failed">> }
    /\ tpc[w] = "done" => Len(issued[w]) = 2
    /\ (tpc[w] = "done" /\ result[w].returned) =>
          issued[w][2] = (IF result[w].success THEN "completed" ELSE "failed")

\* One scrape ended 'failed' and another one 'completed' in the same run.
C6_Witness ==
  \E w, v \in Websites :
    /\ tpc[w] = "done" /\ issued[w] = <<"running", "failed">>
    /\ tpc[v] = "done" /\ issued[v] = <<"running", "completed">>

\* C7: the jobs table holds at most one item per job id, whatever status
\* writes were made for it.
C7_OneJobRecordPerJobId ==
  \A r1, r2 \in jobsTable : r1.jobId = r2.jobId => r1 = r2

\* C8: an item of the jobs table has an end time exactly when its status
\* is 'completed' or 'failed'.
C8_EndTimeIffTerminal ==
  \A r \in jobsTable : (r.endTime # NoTime) <=> (r.status \in TerminalStatuses)

\* The table holds a pending, a running and a terminal item at once.
C8_Witness ==
  /\ \E r \in jobsTable : r.status = "pending" /\ r.endTime = NoTime
  /\ \E r \in jobsTable : r.status = "running" /\ r.endTime = NoTime
  /\ \E r \in jobsTable : r.status \in TerminalStatuses /\ r.endTime # NoTime

\* The first run processed the page of w without any error: its job item
\* is 'completed' with an empty error list and counted the whole page.
FirstRunClean(w) ==
  \E r \in JobItems(WebsiteJobId(1, w)) :
    /\ r.status = "completed"
    /\ r.errors = <<>>
    /\ r.recordsFound = Len(PageResult(w, sourceData[w]))

\* C9: a second run over the same source data, after a first run that
\* stored it without error, inserts nothing, counts every candidate as
\* updated and writes no record.
C9_SecondRunInsertsNothing ==
  \A w \in Websites :
    (run = 2 /\ tpc[w] = "done" /\ result[w].returned /\ result[w].success /\ FirstRunClean(w)) =>
       /\ result[w].metadata.totalInserted = 0
       /\ result[w].metadata.totalUpdated = result[w].metadata.totalFound
       /\ \A k \in DOMAIN scholarshipsTable :
            scholarshipsTable[k].jobId # WebsiteJobId(2, w)

\* The candidate processScholarships of w is working on.
CurrentKey(w) == ScholarshipKey(scholarships[w][idx[w]])

\* C10: no step changes or removes a stored record; a candidate whose key is
\* stored is counted as updated, and a record is written only for a
\* candidate whose key is not stored, which is then counted as inserted.
C10_ExistingRecordsNeverOverwritten ==
  [][ /\ \A k \in DOMAIN scholarshipsTable :
           k \in DOMAIN scholarshipsTable' /\ scholarshipsTable'[k] = scholarshipsTable[k]
      /\ \A w \in Websites :
           (tpc[w] \in {"check", "save"} /\ idx'[w] = idx[w] + 1) =>
              IF CurrentKey(w) \in DOMAIN scholarshipsTable
              THEN /\ scholarshipsTable' = scholarshipsTable
                   /\ updated'[w] = updated[w] + 1
                   /\ inserted'[w] = inserted[w]
              ELSE /\ updated'[w] = updated[w]
                   /\ scholarshipsTable' # scholarshipsTable => inserted'[w] = inserted[w] + 1
    ]_vars

\* Two tasks of the same run whose pages yield the same single candidate
\* and that both ran to the end without any error in their error lists.
SameCandidateTasksDone(w, v) ==
  /\ w # v
  /\ tpc[w] = "done" /\ result[w].returned /\ result[w].success /\ result[w].errors = <<>>
  /\ tpc[v] = "done" /\ result[v].returned /\ result[v].success /\ result[v].errors = <<>>
  /\ Len(scholarships[w]) = 1
  /\ scholarships[v] = scholarships[w]

\* C11: when two tasks process a candidate with the same fingerprint
\* concurrently, the store ends with one record for it and exactly one of
\* the tasks counts it as inserted (the inserted counts add up to 1).
C11_SameFingerprintInsertedOnce ==
  \A w, v \in Websites :
    SameCandidateTasksDone(w, v) =>
      /\ ScholarshipKey(scholarships[w][1]) \in DOMAIN scholarshipsTable
      /\ result[w].metadata.totalInserted + result[v].metadata.totalInserted = 1

\* The (name, organization, deadline) of a candidate or of a stored record.
Triple(s) == << s.name, s.organization, s.deadline >>

\* C12: every stored record is stored under the id generated from its own
\* (name, organization, deadline) and under the key (id, deadline); so two
\* stored records, or a stored record and a candidate of any task, with
\* the same triple have the same id, whatever their urls, their sources,
\* their runs and the ids the adapters pre-assigned.
C12_IdDependsOnlyOnTriple ==
  /\ \A k \in DOMAIN scholarshipsTable :
       /\ scholarshipsTable[k].id = generateScholarshipId(scholarshipsTable[k])
       /\ k = << scholarshipsTable[k].id, scholarshipsTable[k].deadline >>
  /\ \A k1, k2 \in DOMAIN scholarshipsTable :
       Triple(scholarshipsTable[k1]) = Triple(scholarshipsTable[k2]) => k1 = k2
  /\ \A w \in Websites : \A i \in 1..Len(scholarships[w]) :
       \A k \in DOMAIN scholarshipsTable :
         Triple(scholarships[w][i]) = Triple(scholarshipsTable[k]) =>
           ScholarshipKey(scholarships[w][i]) = k

\* A task met a sighting of a scholarship that an earlier run of the other
\* website stored from a sighting with another pre-assigned id and url, and
\* found it stored; and a record written by this run is in the store too.
C12_Witness ==
  \E w \in Websites : \E i \in 1..Len(scholarships[w]) :
    /\ tpc[w] = "done"
    /\ result[w].metadata.totalUpdated >= 1
    /\ scholarships[w][i].id = "r2"
    /\ ScholarshipKey(scholarships[w][i]) \in DOMAIN scholarshipsTable
    /\ scholarshipsTable[ScholarshipKey(scholarships[w][i])].url = "u1"
    /\ scholarshipsTable[ScholarshipKey(scholarships[w][i])].source # ScraperClass(w)
    /\ \E k \in DOMAIN scholarshipsTable : scholarshipsTable[k].jobId = WebsiteJobId(run, w)

\* The operation fails at every invocation.
AllFail == \A n \in DOMAIN operation : operation[n] # "ok"

\* C13: an operation that fails at its first two invocations and succeeds
\* at the third, under withRetry with 3 attempts: the call never throws, and
\* it returns the value of the third invocation after exactly 3 invocations.
C13_FailsTwiceThenSucceeds ==
  (rpc # "idle" /\ retryAttempts = 3
     /\ operation[1] # "ok" /\ operation[2] # "ok" /\ operation[3] = "ok") =>
    /\ rpc # "thrown"
    /\ invocations <= 3
    /\ invocations = 3 => rpc = "returned"
    /\ rpc = "returned" => (invocations = 3 /\ outcome = OperationValue(3))

\* Such a call has returned, after a throttling and a timeout error.
C13_Witness ==
  /\ rpc = "returned"
  /\ retryAttempts = MAX_RETRY_ATTEMPTS
  /\ isThrottlingError(operation[1]) /\ ~isThrottlingError(operation[2])
  /\ isTimeoutError(operation[2])
  /\ operation[3] = "ok"
  /\ outcome = OperationValue(3)

\* C14 as stated: for an operation that always fails, withRetry(operation,
\* maxAttempts) invokes it exactly maxAttempts times and then throws the
\* error of the last invocation.
C14_InvokesMaxAttemptsTimes ==
  (AllFail /\ retryAttempts >= 1 /\ rpc = "thrown") =>
    /\ invocations = retryAttempts
    /\ outcome = OperationError(invocations, operation[invocations])

\* C14 as amended: for an operation that always fails, withRetry(operation,
\* retries) never returns, invokes it exactly retries + 1 times (the first
\* call and one call per retry) and then throws the error of the last
\* invocation, whatever the classes of the errors.
C14_InvokesRetriesPlusOneTimes ==
  (rpc # "idle" /\ AllFail) =>
    /\ rpc # "returned"
    /\ invocations <= retryAttempts + 1
    /\ rpc = "thrown" =>
         /\ invocations = retryAttempts + 1
         /\ outcome = OperationError(retryAttempts + 1, operation[retryAttempts + 1])
    /\ (invocations = retryAttempts + 1) => rpc = "thrown"

\* With the default retry count the always failing operation was invoked
\* four times, and the error thrown is the timeout of the fourth invocation.
C14_Witness ==
  /\ AllFail
  /\ rpc = "thrown"
  /\ retryAttempts = MAX_RETRY_ATTEMPTS
  /\ invocations = 4
  /\ outcome = OperationError(4, "Request timeout")
  /\ operation[3] = "Network Error"

\* C15: whenever withRetry is about to wait before a retry, the delay it
\* would choose there for a throttling error is longer than the one for a
\* generic error, and the delay for a timeout error is the longest.
C15_ThrottlingLongerThanGeneric ==
  rpc = "backoff" =>
    /\ withRetryDelay("ThrottlingException", retries) > withRetryDelay("Network Error", retries)
    /\ withRetryDelay("Request timeout", retries) > withRetryDelay("ThrottlingException", retries)
    /\ withRetryDelay("Request timeout", retries) > withRetryDelay("Network Error", retries)

\* Two successive waits of one call, for errors of the same class.
SameClassRetries(i) ==
  /\ i \in 1..(Len(delays) - 1)
  /\ RetryClass(delays[i].error) = RetryClass(delays[i + 1].error)

\* C16 as stated: for every error class, each successive retry of the same
\* class waits a fixed multiple greater than 1 of the previous wait, and the
\* wait is determined by the attempt number and the error class alone
\* (whatever retry count was configured).
C16_ExponentialForEveryClass ==
  /\ \A i \in 1..Len(delays) :
       SameClassRetries(i) => delays[i + 1].delay > delays[i].delay
  /\ \A i, j \in 1..Len(delays) :
       (SameClassRetries(i) /\ SameClassRetries(j)
          /\ RetryClass(delays[i].error) = RetryClass(delays[j].error)) =>
         delays[i + 1].delay * delays[j].delay = delays[j + 1].delay * delays[i].delay
  /\ \A i \in 1..Len(delays) : \A c \in i..MaxRetries :
       delays[i].delay = withRetryDelay(delays[i].error, c - i + 1)

\* C16 as amended: for throttling and for timeout errors each successive
\* retry of the same class waits twice the previous wait; for any other
\* error the wait is 2000 ms at every retry; the wait before the i-th retry
\* is determined by the error class and the retries left (the configured
\* count less i - 1).
C16_DoublesForThrottlingAndTimeout ==
  /\ \A i \in 1..Len(delays) :
       SameClassRetries(i) =>
         IF RetryClass(delays[i].error) = "other"
         THEN delays[i + 1].delay = delays[i].delay
         ELSE delays[i + 1].delay = 2 * delays[i].delay
  /\ \A i \in 1..Len(delays) :
       /\ RetryClass(delays[i].error) = "other" => delays[i].delay = 2000
       /\ delays[i].retries = retryAttempts - (i - 1)
       /\ delays[i].delay = withRetryDelay(delays[i].error, retryAttempts - (i - 1))

\* Three waits for timeout errors in a row: 4, 8 and 16 seconds.
C16_Witness ==
  /\ Len(delays) = 3
  /\ \A i \in 1..3 : RetryClass(delays[i].error) = "timeout"
  /\ delays[1].delay = 4000 /\ delays[2].delay = 8000 /\ delays[3].delay = 16000

\* C17: any two slots a RateLimiter grants are at least minInterval
\* (1000 / callsPerSecond ms) apart, whoever the callers are.
C17_SlotsAtLeastMinIntervalApart ==
  \A i, j \in 1..Len(grants) :
    i < j => grants[j].time - grants[i].time >= minInterval

\* The items of a terminal status stored for the job of a standalone scraper.
TerminalJobItems(w) == { r \in JobItems(WebsiteJobId(run, w)) : r.status \in TerminalStatuses }

\* C18: every error that occurred while a source task ran (here a failed
\* seed-URL crawl or a failed per-page extraction of the discovery scraper)
\* is an entry of the error list of that task's terminal job record and of
\* the result it returns; none is only logged.
C18_EveryErrorReachesJobErrorList ==
  tpc["discovery"] = "done" =>
    /\ \A r \in TerminalJobItems("discovery") :
         \A i \in 1..Len(caught) : \E j \in 1..Len(r.errors) : r.errors[j] = caught[i]
    /\ result["discovery"].returned =>
         \A i \in 1..Len(caught) :
           \E j \in 1..Len(result["discovery"].errors) : result["discovery"].errors[j] = caught[i]

\* The listing fetch of scraper w failed after withRetry gave up, and
\* scrape() has returned.
FetchFailed(w) ==
  /\ tpc[w] = "done"
  /\ \E i \in 1..Len(errors[w]) : errors[w][i] = FetchError

\* C19: when the listing fetch of a crawl scraper still fails after the
\* retries, scrape() issues the terminal status 'failed' (never
\* 'completed'), every terminal job item stored is 'failed' with the error
\* in its list, and the result has success = false.
C19_UnreachableSourceIsFailed ==
  \A w \in Scrapers \ {"discovery"} :
    FetchFailed(w) =>
      /\ issued[w] = << "running", "failed" >>
      /\ \A r \in TerminalJobItems(w) :
           /\ r.status = "failed"
           /\ \E i \in 1..Len(r.errors) : r.errors[i] = FetchError
      /\ result[w].returned => ~result[w].success


\* The item-level error processScholarships records for candidate s.
SaveError(s) == "Failed to save scholarship: " \o s.name

\* The number of entries of list that are item-level write errors.
SaveErrors(list) == Cardinality({ i \in 1..Len(list) : \E s \in Sightings : list[i] = SaveError(s) })

\* A step of task w in which saveScholarship failed for the current candidate.
SaveFailedStep(w) ==
  /\ tpc[w] = "save"
  /\ tpc'[w] # "save" \/ idx'[w] # idx[w]
  /\ inserted'[w] = inserted[w]

\* C20: a failed write for one candidate stores nothing, adds exactly one
\* item-level error naming that candidate, and the loop goes on with the
\* duplicate check of the next candidate, or to the terminal status after
\* the last one; a task that has returned after a successful fetch went
\* through all its candidates, each counted once as inserted, as updated or
\* as a write error, and issued its terminal status.
C20_WriteFailureDoesNotStopProcessing ==
  /\ [][\A w \in Websites : SaveFailedStep(w) =>
         /\ scholarshipsTable' = scholarshipsTable
         /\ errors'[w] = Append(errors[w], SaveError(scholarships[w][idx[w]]))
         /\ idx'[w] = idx[w] + 1
         /\ tpc'[w] = IF idx[w] < Len(scholarships[w]) THEN "check" ELSE "completing"
         /\ updated'[w] = updated[w]]_vars
  /\ [](\A w \in Websites :
         tpc[w] = "done" /\ Len(scholarships[w]) > 0 =>
           /\ idx[w] = Len(scholarships[w]) + 1
           /\ inserted[w] + updated[w] + SaveErrors(errors[w]) = Len(scholarships[w])
           /\ issued[w] = << "running", "completed" >>)

\* The write of the first candidate (A) failed, the second candidate (B)
\* was still checked and written by this run, and the job was completed
\* with the one error in its record.
C20_Witness ==
  \E w \in Websites :
    /\ tpc[w] = "done"
    /\ Len(scholarships[w]) = 2
    /\ errors[w] = << SaveError(scholarships[w][1]) >>
    /\ inserted[w] = 1
    /\ ScholarshipKey(scholarships[w][2]) \in DOMAIN scholarshipsTable
    /\ scholarshipsTable[ScholarshipKey(scholarships[w][2])].jobId = WebsiteJobId(run, w)
    /\ ScholarshipKey(scholarships[w][1]) \notin DOMAIN scholarshipsTable
    /\ issued[w] = << "running", "completed" >>
    /\ \E r \in TerminalJobItems(w) : r.errors = errors[w]


\* C21: an enabled website whose item fails validateWebsiteConfig is not
\* among the websites the load returns and no job is submitted for it,
\* while the valid enabled websites of the same load are returned and
\* submitted.
C21_InvalidSourcesAreSkipped ==
  /\ \A w \in Websites :
       ~validateWebsiteConfig(websiteFields[w]).isValid =>
         /\ w \notin enabledWebsites
         /\ submitCalls[w] = 0
  /\ HandlerFinishedSubmitting =>
       \A w \in Websites :
         websitesConfig[w] /\ validateWebsiteConfig(websiteFields[w]).isValid =>
           /\ w \in enabledWebsites
           /\ submitCalls[w] = 1


\* The list scraper w got from its page scan holds no name twice.
NamesUnique(w) ==
  \A i, j \in 1..Len(scholarships[w]) :
    i # j => scholarships[w][i].name # scholarships[w][j].name

\* C22: the list of records a crawl scraper returns from a single page scan
\* (what it hands to processScholarships) contains no two records with the
\* same name.
C22_PageScanHasNoDuplicateNames ==
  \A w \in Scrapers \ {"discovery"} : NamesUnique(w)


\* The value is missing, empty or made of spaces only.
IsBlank(value) == value = Undefined \/ \A i \in 1..Len(value) : value[i] = " "

\* A step of task w in which saveScholarship stored the current candidate.
SaveStoredStep(w) ==
  /\ tpc[w] = "save"
  /\ inserted'[w] = inserted[w] + 1

EndsWithEllipsis(text) ==
  Len(text) >= 3 /\ SubSeq(text, Len(text) - 2, Len(text)) = Ellipsis

C24_StoredTextWithinCap ==
  fpc = "stored" => Len(fnOutput) <= fnInput.maxLength


\* C26: for every amount text, cleanAmount followed by parseFloat with
\* default 0 yields a number that is not negative.
C26_AmountIsNeverNegative ==
  fpc = "returned" /\ fnInput \in AmountsUpTo(MaxAmountLen) => fnOutput >= 0


\* The candidates task w has gone through.
Processed(w) ==
  IF tpc[w] \in { "check", "save" } THEN idx[w] - 1
  ELSE IF tpc[w] \in { "completing", "done" } THEN Len(scholarships[w])
  ELSE 0

\* C27: at every point of processScholarships, and when it has returned,
\* inserted + updated + the number of its errors equals the number of
\* candidates gone through, so each candidate counts exactly once; and on
\* every job record found >= processed >= inserted + updated, with no
\* negative count.
C27_EachCandidateCountsOnce ==
  /\ \A w \in Scrapers :
       tpc[w] \in { "check", "save", "completing", "done" } =>
         /\ inserted[w] + updated[w] + SaveErrors(errors[w]) = Processed(w)
         /\ inserted[w] >= 0 /\ updated[w] >= 0
  /\ \A r \in jobsTable :
       /\ r.recordsFound >= r.recordsProcessed
       /\ r.recordsProcessed >= r.recordsInserted + r.recordsUpdated
       /\ r.recordsInserted >= 0 /\ r.recordsUpdated >= 0 /\ r.recordsFound >= 0

\* A task went through two candidates, one found stored and one written,
\* and its completed job record carries these counts.
C27_Witness ==
  \E w \in Websites :
    /\ tpc[w] = "done"
    /\ Len(scholarships[w]) = 2
    /\ inserted[w] = 1 /\ updated[w] = 1
    /\ \E r \in TerminalJobItems(w) :
         /\ r.status = "completed"
         /\ r.recordsFound = 2 /\ r.recordsProcessed = 2
         /\ r.recordsInserted = 1 /\ r.recordsUpdated = 1


\* C28: whatever the duplicate-check read did, processScholarships writes
\* and counts as inserted only a candidate whose key is not stored: a stored
\* record is neither replaced nor counted as inserted.
C28_FailedCheckNeverOverwrites ==
  [][\A w \in Websites :
       SaveStoredStep(w) =>
         /\ CurrentKey(w) \notin DOMAIN scholarshipsTable
         /\ \A k \in DOMAIN scholarshipsTable : scholarshipsTable'[k] = scholarshipsTable[k]]_vars


\* C29: two candidates of the same deadline whose (name, organization)
\* pairs differ have different fingerprints and are not duplicates of each
\* other, also when a name or an organization holds '-' or is missing.
C29_DistinctTriplesDistinctFingerprints ==
  fpc = "returned" /\ Triple(fnInput.first) # Triple(fnInput.second) =>
    /\ generateScholarshipId(fnInput.first) # generateScholarshipId(fnInput.second)
    /\ ~fnOutput.isDuplicate


\* A wait for the crawl of a seed URL has just finished.
WaitFinished == fnOutput.end # "none"

\* A step in which the crawl of the current seed URL failed.
SeedFailedStep == Len(caught') = Len(caught) + 1

\* A wait sends at most maxAttempts requests and times out only after all
\* of them; and when runDiscoveryCrawl returns, every seed URL was crawled
\* and ended either with its results or with one error.
CrawlBounded ==
  /\ fnOutput.polls <= maxAttempts
  /\ fnOutput.end = "timeout" => fnOutput.polls = maxAttempts
  /\ fpc = "returned" =>
       /\ seedIdx = fnInput.seedUrls + 1
       /\ Len(caught) + Len(discoveryResults) = fnInput.seedUrls

====
